---- MODULE Spec2Model ----
(***************************************************************************)
(* A model of fs/mountfs.py: the mount table of MountFS, the resolution of *)
(* a path to a (filesystem, path) pair by _delegate, the proxied           *)
(* operations that forward to the resolved filesystem, desc() and close(). *)
(*                                                                         *)
(* A path is a sequence of one-character strings.  Every call made through *)
(* the MountFS is recorded in the variable last: the operation, the path   *)
(* and the other arguments the caller gave, what _delegate returned, the   *)
(* calls made on backend filesystems (in order) with the arguments passed, *)
(* the exception raised, if any, and the value desc returned.  The         *)
(* directories and files of the default filesystem are kept in root; what  *)
(* the mounted filesystems hold is not modelled.                           *)
(***************************************************************************)
EXTENDS Integers, Sequences, FiniteSets, TLC

\* ------------------------------------------------------------------ bounds
MaxLen == 2
MaxMounts == 2

\* the paths callers pass: every string of at most MaxLen characters over
\* Chars, and the two dotted paths "." and ".."
Chars == {"/", "a"}
DotPaths == {<<".">>, <<".", ".">>}
Paths == UNION {[1..n -> Chars] : n \in 0..MaxLen} \cup DotPaths

Backends == {"A", "B"}
Self == "self"
Default == "default_fs"
NoFs == "none"

\* ------------------------------------------------------- string primitives
startswith(s, p) ==
    /\ Len(p) <= Len(s)
    /\ \A i \in 1..Len(p) : s[i] = p[i]

endswith(s, p) ==
    /\ Len(p) <= Len(s)
    /\ \A i \in 1..Len(p) : s[Len(s) - Len(p) + i] = p[i]

RECURSIVE rstrip(_)
rstrip(s) ==
    IF Len(s) > 0 /\ s[Len(s)] = "/" THEN rstrip(SubSeq(s, 1, Len(s) - 1)) ELSE s

RECURSIVE split(_)
split(s) ==
    IF \A i \in 1..Len(s) : s[i] # "/"
    THEN <<s>>
    ELSE LET k == CHOOSE i \in 1..Len(s) :
                     s[i] = "/" /\ \A j \in 1..(i - 1) : s[j] # "/"
         IN  <<SubSeq(s, 1, k - 1)>> \o split(SubSeq(s, k + 1, Len(s)))

RECURSIVE join(_)
join(cs) ==
    IF Len(cs) = 0 THEN <<>>
    ELSE IF Len(cs) = 1 THEN cs[1]
    ELSE cs[1] \o <<"/">> \o join(Tail(cs))

\* ------------------------------------------------------------- fs.path
IllegalBackReference == <<"IllegalBackReference">>

\* the regular expression (^|/)\.\.?($|/)|// : two separators in a row, or a
\* component that is "." or ".."
_requires_normalization(path) ==
    LET n == Len(path)
        starts(i) == i = 1 \/ path[i - 1] = "/"
        ends(i) == i = n \/ path[i + 1] = "/"
    IN  \/ \E i \in 1..(n - 1) : path[i] = "/" /\ path[i + 1] = "/"
        \/ \E i \in 1..n :
               /\ starts(i)
               /\ path[i] = "."
               /\ \/ ends(i)
                  \/ i < n /\ path[i + 1] = "." /\ ends(i + 1)

\* the loop of normpath over the components: "" and "." are dropped, ".."
\* pops the last component kept, and fails when there is none
RECURSIVE components(_, _)
components(cs, acc) ==
    IF Len(cs) = 0 THEN acc
    ELSE IF Head(cs) = <<".", ".">>
         THEN IF Len(acc) = 0 THEN <<IllegalBackReference>>
              ELSE components(Tail(cs), SubSeq(acc, 1, Len(acc) - 1))
    ELSE IF Head(cs) \in {<<>>, <<".">>}
         THEN components(Tail(cs), acc)
    ELSE components(Tail(cs), Append(acc, Head(cs)))

normpath(path) ==
    IF path \in {<<>>, <<"/">>} THEN path
    ELSE IF ~_requires_normalization(path) THEN rstrip(path)
    ELSE LET prefix == IF startswith(path, <<"/">>) THEN <<"/">> ELSE <<>>
             cs == components(split(path), <<>>)
         IN  IF cs = <<IllegalBackReference>> THEN IllegalBackReference
             ELSE prefix \o join(cs)

abspath(path) ==
    IF ~startswith(path, <<"/">>) THEN <<"/">> \o path ELSE path

forcedir(path) ==
    IF ~endswith(path, <<"/">>) THEN path \o <<"/">> ELSE path

\* normpath on the paths callers pass, evaluated once (f @@ f makes the
\* function an explicit table)
normpath_table == LET f == [p \in Paths |-> normpath(p)] IN f @@ f

\* normpath(path): looked up for a caller's path, computed for any other
normpath_of(path) ==
    IF path \in Paths THEN normpath_table[path] ELSE normpath(path)

\* forcedir(abspath(normpath(path))), or the exception normpath raises
_path_compute(path) ==
    LET np == normpath(path)
    IN  IF np = IllegalBackReference THEN IllegalBackReference
        ELSE forcedir(abspath(np))

_path_table == LET f == [p \in Paths |-> _path_compute(p)] IN f @@ f

\* _path_compute(path): looked up for a caller's path, computed for any other
_path_of(path) ==
    IF path \in Paths THEN _path_table[path] ELSE _path_compute(path)

\* ------------------------------------------------------------------ state
VARIABLES
    mounts,          \* self.mounts: the sequence of (mount path, fs) entries
    auto_close,      \* self.auto_close
    closed,          \* self._closed of the MountFS
    default_closed,  \* whether self.default_fs has been closed
    root,            \* the directories and files of self.default_fs
    last             \* the record of the most recent call on the MountFS

vars == <<mounts, auto_close, closed, default_closed, root, last>>

\* values of the arguments other than the path (namespaces, permissions and
\* recreate, encoding, errors and newline, info, contents, keyword options)
Arguments == {"x", "y"}

\* values of the mode argument of open and openbin: reading, writing, and a
\* string that validate_open_mode and validate_openbin_mode refuse
Modes == {"r", "w", "?"}

\* values of the buffering argument of open and openbin; -1 is the default
Bufferings == {-1, 0}

NoDelegate == [arg |-> <<>>, fs |-> NoFs, path |-> <<>>]

\* the value of a call that returns nothing the model follows
NoValue == <<>>

\* args are the caller's arguments other than the path, passed the ones the
\* backend was called with; exists is what self.exists(path) told desc
\* ("yes", "no", or "none" when it was not asked or raised), ret the value
\* desc returned
NoCall == [op |-> "none", path |-> <<>>, fs |-> NoFs, deleg |-> NoDelegate,
           calls |-> <<>>, err |-> "none", args |-> <<>>, passed |-> <<>>,
           exists |-> "none", ret |-> NoValue]

Call(fs, op, path) == [fs |-> fs, op |-> op, path |-> path]

\* MountFS.__init__
Init ==
    /\ mounts = <<>>
    /\ auto_close \in BOOLEAN
    /\ closed = FALSE
    /\ default_closed = FALSE
    /\ root = [dirs |-> {}, files |-> {}]
    /\ last = NoCall

\* ------------------------------------------------------------- _delegate
\* the same search comparing with the mount path less its trailing separator
first_mounted_no_separator(ms, _path) ==
    LET bare(i) == SubSeq(ms[i].mount_path, 1, Len(ms[i].mount_path) - 1)
    IN  IF \E i \in 1..Len(ms) : startswith(_path, bare(i))
        THEN CHOOSE i \in 1..Len(ms) :
                 /\ startswith(_path, bare(i))
                 /\ \A j \in 1..(i - 1) : ~startswith(_path, bare(j))
        ELSE 0

\* the index of the first entry whose mount path _path starts with, or 0
first_mounted(ms, _path) ==
    IF \E i \in 1..Len(ms) : startswith(_path, ms[i].mount_path)
    THEN CHOOSE i \in 1..Len(ms) :
             /\ startswith(_path, ms[i].mount_path)
             /\ \A j \in 1..(i - 1) : ~startswith(_path, ms[j].mount_path)
    ELSE 0

\* _delegate returning the normalized path for an unmounted path
_delegate_normalized(ms, path) ==
    LET _path == _path_of(path)
        i == first_mounted(ms, _path)
    IN  IF _path = IllegalBackReference
        THEN [arg |-> path, fs |-> NoFs, path |-> IllegalBackReference]
        ELSE IF i # 0
             THEN [arg |-> path, fs |-> ms[i].fs,
                   path |-> rstrip(SubSeq(_path, Len(ms[i].mount_path) + 1, Len(_path)))]
        ELSE [arg |-> path, fs |-> Default, path |-> normpath_of(path)]

\* MountFS._delegate: (fs, path) for the argument arg, or fs = NoFs when
\* normpath raises
_delegate(ms, path) ==
    LET _path == _path_of(path)
        i == first_mounted(ms, _path)
    IN  IF _path = IllegalBackReference
        THEN [arg |-> path, fs |-> NoFs, path |-> IllegalBackReference]
        ELSE IF i # 0
             THEN [arg |-> path, fs |-> ms[i].fs,
                   path |-> rstrip(SubSeq(_path, Len(ms[i].mount_path) + 1, Len(_path)))]
        ELSE [arg |-> path, fs |-> Default, path |-> path]

\* ------------------------------------------------- the default filesystem
\* self.default_fs is a MemoryFS; root holds its directories and files
\* other than "/", each by its absolute normalized path

\* validatepath of the backend: abspath(normpath(path))
key(path) == abspath(normpath_of(path))

\* the path of the directory holding k
dirname(k) ==
    LET i == CHOOSE n \in 1..Len(k) : k[n] = "/" /\ \A m \in (n + 1)..Len(k) : k[m] # "/"
    IN  IF i = 1 THEN <<"/">> ELSE SubSeq(k, 1, i - 1)

\* the directories above k, "/" excluded
intermediate_dirs(k) == {SubSeq(k, 1, i - 1) : i \in {n \in 2..Len(k) : k[n] = "/"}}

is_dir(r, k) == k = <<"/">> \/ k \in r.dirs

is_file(r, k) == k \in r.files

is_empty(r, k) == \A e \in r.dirs \cup r.files : dirname(e) # k

Result(r, err) == [root |-> r, err |-> err]

\* makedirs(path, recreate=True): the directory and those above it are
\* created where absent; a file in the way makes it fail
makedirs(r, path) ==
    LET k == key(path)
    IN  IF intermediate_dirs(k) \cap r.files # {} THEN Result(r, "ResourceNotFound")
        ELSE IF is_file(r, k) THEN Result(r, "DirectoryExpected")
        ELSE Result([r EXCEPT !.dirs = @ \cup intermediate_dirs(k) \cup ({k} \ {<<"/">>})],
                    "none")

\* the operations that need the resource to exist, to be a directory, to be
\* a file
OnResource == {"getinfo", "getsize", "gettype", "setinfo"}
OnDirectory == {"listdir", "scandir"}
OnFile == {"getbytes", "gettext"}

\* whether a call opens or writes the file for writing; the mode is the
\* first of the arguments passed to open and openbin
writes(op, passed) ==
    \/ op \in {"setbytes", "settext"}
    \/ op \in {"open", "openbin"} /\ passed[1] = "w"

reads(op, passed) ==
    \/ op \in OnFile
    \/ op \in {"open", "openbin"} /\ passed[1] # "w"

\* the outcome of the operation op of a MemoryFS with the entries r
MemoryFS(op, path, passed, r) ==
    LET k == key(path)
    IN  IF op = "makedirs" THEN makedirs(r, path)
        ELSE IF op = "makedir"
             THEN IF is_dir(r, k) \/ is_file(r, k) THEN Result(r, "DirectoryExists")
                  ELSE IF ~is_dir(r, dirname(k)) THEN Result(r, "ResourceNotFound")
                  ELSE Result([r EXCEPT !.dirs = @ \cup {k}], "none")
        ELSE IF op = "remove"
             THEN IF is_file(r, k) THEN Result([r EXCEPT !.files = @ \ {k}], "none")
                  ELSE IF is_dir(r, k) THEN Result(r, "FileExpected")
                  ELSE Result(r, "ResourceNotFound")
        ELSE IF op = "removedir"
             THEN IF k = <<"/">> THEN Result(r, "RemoveRootError")
                  ELSE IF is_file(r, k) THEN Result(r, "DirectoryExpected")
                  ELSE IF ~is_dir(r, k) THEN Result(r, "ResourceNotFound")
                  ELSE IF ~is_empty(r, k) THEN Result(r, "DirectoryNotEmpty")
                  ELSE Result([r EXCEPT !.dirs = @ \ {k}], "none")
        ELSE IF writes(op, passed)
             THEN IF is_dir(r, k) THEN Result(r, "FileExpected")
                  ELSE IF ~is_dir(r, dirname(k)) THEN Result(r, "ResourceNotFound")
                  ELSE Result([r EXCEPT !.files = @ \cup {k}], "none")
        ELSE IF reads(op, passed)
             THEN IF is_file(r, k) THEN Result(r, "none")
                  ELSE IF is_dir(r, k) THEN Result(r, "FileExpected")
                  ELSE Result(r, "ResourceNotFound")
        ELSE IF op \in OnDirectory
             THEN IF is_dir(r, k) THEN Result(r, "none")
                  ELSE IF is_file(r, k) THEN Result(r, "DirectoryExpected")
                  ELSE Result(r, "ResourceNotFound")
        ELSE IF op \in OnResource
             THEN IF is_dir(r, k) \/ is_file(r, k) THEN Result(r, "none")
                  ELSE Result(r, "ResourceNotFound")
        ELSE IF op = "getsyspath" THEN Result(r, "NoSysPath")
        ELSE IF op = "geturl" THEN Result(r, "NoURL")
        ELSE Result(r, "none")

\* the outcome of the call fs.op(path, ...) of a proxied operation or of
\* mount: the default filesystem refuses every call once closed; what the
\* mounted filesystems hold is left open, their calls are only recorded
backend(fs, op, path, passed) ==
    IF fs # Default THEN Result(root, "none")
    ELSE IF default_closed THEN Result(root, "FilesystemClosed")
    ELSE MemoryFS(op, path, passed, root)

\* ----------------------------------------------------------------- mount
\* the conflict test with the prefix direction reversed
overlaps_reversed(ms, _path) ==
    \E i \in 1..Len(ms) : startswith(ms[i].mount_path, _path)

\* the loop over self.mounts: _path starts with an existing mount path
overlaps(ms, _path) ==
    \E i \in 1..Len(ms) : startswith(_path, ms[i].mount_path)

\* the checks of mount with the conflict test before the self test
mount_check_conflict_first(ms, _path, fs) ==
    IF _path = IllegalBackReference THEN "IllegalBackReference"
    ELSE IF overlaps(ms, _path) THEN "MountError"
    ELSE IF fs = Self THEN "ValueError"
    ELSE "none"

\* the exception mount raises before it appends, or "none"; _path is
\* forcedir(abspath(normpath(path))), computed after the self test
mount_check(ms, _path, fs) ==
    IF fs = Self THEN "ValueError"
    ELSE IF _path = IllegalBackReference THEN "IllegalBackReference"
    ELSE IF overlaps(ms, _path) THEN "MountError"
    ELSE "none"

mount(path, fs) ==
    LET _path == _path_of(path)
        err == mount_check(mounts, _path, fs)
        rec(calls, e) == [NoCall EXCEPT !.op = "mount", !.path = path, !.fs = fs,
                                        !.calls = calls, !.err = e]
    IN  IF err # "none"
        THEN /\ last' = rec(<<>>, err)
             /\ UNCHANGED <<mounts, auto_close, closed, default_closed, root>>
        ELSE /\ Len(mounts) < MaxMounts
             /\ mounts' = Append(mounts, [mount_path |-> _path, fs |-> fs])
             \* self.default_fs.makedirs(_path, recreate=True) runs, and may
             \* fail, after the entry was appended
             /\ LET made == backend(Default, "makedirs", _path, <<>>)
                IN  /\ root' = made.root
                    /\ last' = rec(<<Call(Default, "makedirs", _path)>>, made.err)
             /\ UNCHANGED <<auto_close, closed, default_closed>>

Mount == \E path \in Paths, fs \in Backends \cup {Self} : mount(path, fs)

\* ----------------------------------------------------------------- close
\* the mounted filesystems in reverse mount order
children_reversed(ms, ac) ==
    IF ac THEN [i \in 1..Len(ms) |-> ms[Len(ms) + 1 - i].fs] ELSE <<>>

\* the filesystems the loop of close visits, in order: every mounted
\* filesystem if auto_close, none otherwise
children(ms, ac) ==
    IF ac THEN [i \in 1..Len(ms) |-> ms[i].fs] ELSE <<>>

\* bad: the backend filesystems whose close() raises in this call
close(bad) ==
    LET cs == children(mounts, auto_close)
        \* the position at which the loop stops with an exception, or 0
        stop == IF \E i \in 1..Len(cs) : cs[i] \in bad
                THEN CHOOSE i \in 1..Len(cs) : /\ cs[i] \in bad
                                                /\ \A j \in 1..(i - 1) : cs[j] \notin bad
                ELSE 0
        closes(k) == [i \in 1..k |-> Call(cs[i], "close", <<>>)]
        all == Append(closes(Len(cs)), Call(Default, "close", <<>>))
        rec(calls, err) == [NoCall EXCEPT !.op = "close", !.calls = calls, !.err = err]
    IN  IF stop # 0
        THEN /\ last' = rec(closes(stop), "BackendError")
             /\ UNCHANGED <<mounts, auto_close, closed, default_closed, root>>
        ELSE /\ mounts' = IF auto_close THEN <<>> ELSE mounts
             /\ IF Default \in bad
                THEN /\ last' = rec(all, "BackendError")
                     /\ UNCHANGED <<closed, default_closed, root>>
                \* the closed MemoryFS drops its entries
                ELSE /\ last' = rec(all, "none")
                     /\ default_closed' = TRUE
                     /\ root' = [dirs |-> {}, files |-> {}]
                     /\ closed' = TRUE
             /\ UNCHANGED auto_close

Close == \E bad \in SUBSET (Backends \cup {Default}) : close(bad)

\* ------------------------------------------------------------------ desc
\* "{path} on {fs}".format(fs=fs, path=delegate_path)
format(delegate_path, fs) == delegate_path \o <<" on ">> \o <<fs>>

\* what self.exists(path) tells once self.getinfo(path) has reached the
\* filesystem fs with the relative path: "yes", "no" for ResourceNotFound,
\* or the other exception getinfo raised; found tells whether a mounted
\* filesystem has the resource
exists(fs, path, found) ==
    IF fs \in Backends THEN (IF found THEN "yes" ELSE "no")
    ELSE LET err == backend(fs, "getinfo", path, <<>>).err
         IN  IF err = "none" THEN "yes"
             ELSE IF err = "ResourceNotFound" THEN "no"
             ELSE err

\* desc formatting the description without the test of self.exists(path)
described_unchecked(d, e) ==
    IF e \in {"yes", "no"} THEN [err |-> "none", ret |-> format(d.path, d.fs)]
    ELSE [err |-> e, ret |-> NoValue]

\* the rest of desc for the answer e of self.exists(path) and the result d
\* of self._delegate(path)
described(d, e) ==
    IF e = "no" THEN [err |-> "ResourceNotFound", ret |-> NoValue]
    ELSE IF e = "yes" THEN [err |-> "none", ret |-> format(d.path, d.fs)]
    ELSE [err |-> e, ret |-> NoValue]

\* desc: self.exists(path) runs getinfo, which checks that the MountFS is
\* open and delegates; its exceptions other than ResourceNotFound go to the
\* caller
desc_(path, found) ==
    LET d == _delegate(mounts, path)
        rec(calls, err, e, ret) == [NoCall EXCEPT !.op = "desc", !.path = path,
                                                  !.calls = calls, !.err = err,
                                                  !.exists = e, !.ret = ret]
    IN  /\ last' = IF closed THEN rec(<<>>, "FilesystemClosed", "none", NoValue)
                   ELSE IF d.fs = NoFs THEN rec(<<>>, "IllegalBackReference", "none", NoValue)
                   ELSE LET e == exists(d.fs, d.path, found)
                            out == described(d, e)
                        IN  rec(<<Call(d.fs, "getinfo", d.path)>>, out.err,
                                IF e \in {"yes", "no"} THEN e ELSE "none", out.ret)
        /\ UNCHANGED <<mounts, auto_close, closed, default_closed, root>>

desc == \E path \in Paths, found \in BOOLEAN : desc_(path, found)

\* ------------------------------------------------------ proxied operations
\* self._check(); fs, _path = self._delegate(path); return fs.op(arg, ...)
\* relative is TRUE when the operation passes _path to fs, FALSE when it
\* passes the caller's path
proxy(op, path, relative, args, passed) ==
    LET d == _delegate(mounts, path)
        rec(deleg, calls, err) == [NoCall EXCEPT !.op = op, !.path = path, !.deleg = deleg,
                                                 !.calls = calls, !.err = err,
                                                 !.args = args,
                                                 !.passed = IF calls = <<>> THEN <<>> ELSE passed]
        arg == IF relative THEN d.path ELSE path
    IN  /\ IF closed
           THEN /\ last' = rec(NoDelegate, <<>>, "FilesystemClosed")
                /\ root' = root
           ELSE IF d.fs = NoFs
           THEN /\ last' = rec(NoDelegate, <<>>, "IllegalBackReference")
                /\ root' = root
           ELSE LET out == backend(d.fs, op, arg, passed)
                IN  /\ last' = rec(d, <<Call(d.fs, op, arg)>>, out.err)
                    /\ root' = out.root
        /\ UNCHANGED <<mounts, auto_close, closed, default_closed>>

getinfo ==
    \E path \in Paths, args \in Arguments : proxy("getinfo", path, TRUE, <<args>>, <<args>>)

listdir == \E path \in Paths : proxy("listdir", path, TRUE, <<>>, <<>>)

makedir ==
    \E path \in Paths, args \in Arguments : proxy("makedir", path, TRUE, <<args>>, <<args>>)

remove == \E path \in Paths : proxy("remove", path, TRUE, <<>>, <<>>)

getbytes == \E path \in Paths : proxy("getbytes", path, TRUE, <<>>, <<>>)

gettext ==
    \E path \in Paths, args \in Arguments : proxy("gettext", path, TRUE, <<args>>, <<args>>)

getsize == \E path \in Paths : proxy("getsize", path, FALSE, <<>>, <<>>)

getsyspath == \E path \in Paths : proxy("getsyspath", path, FALSE, <<>>, <<>>)

gettype == \E path \in Paths : proxy("gettype", path, TRUE, <<>>, <<>>)

geturl == \E path \in Paths : proxy("geturl", path, FALSE, <<>>, <<>>)

hasurl == \E path \in Paths : proxy("hasurl", path, TRUE, <<>>, <<>>)

isdir == \E path \in Paths : proxy("isdir", path, TRUE, <<>>, <<>>)

isfile == \E path \in Paths : proxy("isfile", path, TRUE, <<>>, <<>>)

scandir ==
    \E path \in Paths, args \in Arguments : proxy("scandir", path, TRUE, <<args>>, <<args>>)

setinfo ==
    \E path \in Paths, args \in Arguments : proxy("setinfo", path, FALSE, <<args>>, <<args>>)

validatepath == \E path \in Paths : proxy("validatepath", path, TRUE, <<>>, <<>>)

setbytes ==
    \E path \in Paths, args \in Arguments : proxy("setbytes", path, FALSE, <<args>>, <<args>>)

\* validate_openbin_mode(mode) / validate_open_mode(mode) run before
\* self._check(); modeOk is whether the mode string passes the validation
checked_mode(op, path, modeOk, args, passed) ==
    IF modeOk THEN proxy(op, path, TRUE, args, passed)
    ELSE /\ last' = [NoCall EXCEPT !.op = op, !.path = path, !.err = "ValueError",
                                   !.args = args]
         /\ UNCHANGED <<mounts, auto_close, closed, default_closed, root>>

\* openbin calls the backend with buffering=-1 whatever the caller gave
openbin ==
    \E path \in Paths, mode \in Modes, buffering \in Bufferings :
        checked_mode("openbin", path, mode # "?", <<mode, buffering>>, <<mode, -1>>)

open ==
    \E path \in Paths, mode \in Modes, buffering \in Bufferings :
        checked_mode("open", path, mode # "?", <<mode, buffering>>, <<mode, buffering>>)

\* the root test accepting only "/"
is_root_slash_only(np) == np = <<"/">>

\* path in ('', '/')
is_root(np) == np \in {<<>>, <<"/">>}

\* removedir: self._check(); path = normpath(path); the root is refused
\* before _delegate is called with the normalized path
removedir_(path) ==
    LET np == normpath_of(path)
        d == _delegate(mounts, np)
        rec(deleg, calls, err) == [NoCall EXCEPT !.op = "removedir", !.path = path,
                                                 !.deleg = deleg, !.calls = calls, !.err = err]
    IN  /\ IF closed
           THEN /\ last' = rec(NoDelegate, <<>>, "FilesystemClosed")
                /\ root' = root
           ELSE IF np = IllegalBackReference
           THEN /\ last' = rec(NoDelegate, <<>>, "IllegalBackReference")
                /\ root' = root
           ELSE IF is_root(np)
           THEN /\ last' = rec(NoDelegate, <<>>, "RemoveRootError")
                /\ root' = root
           ELSE LET out == backend(d.fs, "removedir", d.path, <<>>)
                IN  /\ last' = rec(d, <<Call(d.fs, "removedir", d.path)>>, out.err)
                    /\ root' = out.root
        /\ UNCHANGED <<mounts, auto_close, closed, default_closed>>

removedir == \E path \in Paths : removedir_(path)

\* settext has no self._check()
settext_(path, args) ==
    LET d == _delegate(mounts, path)
        rec(deleg, calls, err) == [NoCall EXCEPT !.op = "settext", !.path = path,
                                                 !.deleg = deleg, !.calls = calls, !.err = err,
                                                 !.args = <<args>>,
                                                 !.passed = IF calls = <<>> THEN <<>>
                                                            ELSE <<args>>]
    IN  /\ IF d.fs = NoFs
           THEN /\ last' = rec(NoDelegate, <<>>, "IllegalBackReference")
                /\ root' = root
           ELSE LET out == backend(d.fs, "settext", d.path, <<args>>)
                IN  /\ last' = rec(d, <<Call(d.fs, "settext", d.path)>>, out.err)
                    /\ root' = out.root
        /\ UNCHANGED <<mounts, auto_close, closed, default_closed>>

settext == \E path \in Paths, args \in Arguments : settext_(path, args)

ProxiedOps == {"getinfo", "listdir", "makedir", "openbin", "remove", "removedir",
               "getbytes", "gettext", "getsize", "getsyspath", "gettype", "geturl",
               "hasurl", "isdir", "isfile", "scandir", "setinfo", "validatepath",
               "open", "setbytes", "settext"}

\* -------------------------------------------------------- specifications
\* every operation of the MountFS
Next ==
    \/ Mount
    \/ Close
    \/ desc
    \/ getinfo
    \/ listdir
    \/ makedir
    \/ openbin
    \/ remove
    \/ removedir
    \/ getbytes
    \/ gettext
    \/ getsize
    \/ getsyspath
    \/ gettype
    \/ geturl
    \/ hasurl
    \/ isdir
    \/ isfile
    \/ scandir
    \/ setinfo
    \/ validatepath
    \/ open
    \/ setbytes
    \/ settext

Spec == Init /\ [][Next]_vars

\* The proxied operations change no field of the MountFS (only the record
\* last), so the mount tables and closed states reachable by mount and close
\* alone are those of Spec.
NextMount ==
    \/ Mount
    \/ Close

SpecMount == Init /\ [][NextMount]_vars

\* mount and close with two proxied operations: getinfo, which passes the
\* caller's path to _delegate as every proxied operation but removedir does,
\* and removedir, which normalizes the path and refuses the root first
NextResolve ==
    \/ Mount
    \/ Close
    \/ getinfo
    \/ removedir

SpecResolve == Init /\ [][NextResolve]_vars

\* mount and close with getinfo, which starts with self._check(), and
\* settext, which does not
NextClosed ==
    \/ Mount
    \/ Close
    \/ getinfo
    \/ settext

SpecClosed == Init /\ [][NextClosed]_vars

\* mounting and a lookup with the path as the caller gave it, on a MountFS
\* that stays open
NextLookup ==
    \/ Mount
    \/ listdir

SpecLookup == Init /\ [][NextLookup]_vars

\* mounting and removing directories, on a MountFS that stays open
NextRemove ==
    \/ Mount
    \/ removedir

SpecRemove == Init /\ [][NextRemove]_vars

\* mounting and describing paths, on a MountFS that stays open
NextDesc ==
    \/ Mount
    \/ desc

SpecDesc == Init /\ [][NextDesc]_vars

\* mounting, closing, opening a file and an operation that passes the
\* caller's path on
NextForward ==
    \/ Mount
    \/ Close
    \/ openbin
    \/ getsize

SpecForward == Init /\ [][NextForward]_vars

\* ------------------------------------------------------------- properties
\* the normalized, separator-terminated form of the path given to _delegate
\* in the most recent call
LastDir == _path_of(last.deleg.arg)

\* the most recent call reached the end of _delegate
Delegated == last.deleg.fs # NoFs

\* the step is a call of mount / of close
MountStep == last'.op = "mount"
CloseStep == last'.op = "close"

\* C1: no two entries of the mount table have mount paths of which one is a
\* prefix of the other
C1_NoPrefixOverlap ==
    \A i, j \in 1..Len(mounts) :
        i # j => ~startswith(mounts[i].mount_path, mounts[j].mount_path)

\* C2: for every entry (M, B) whose mount path M is a prefix of the
\* normalized path, _delegate returns B and a relative suffix with
\* M + suffix equal to the normalized path up to the trailing separator, the
\* suffix not beginning with M
C2_DelegateEveryMount ==
    Delegated =>
        \A i \in 1..Len(mounts) :
            startswith(LastDir, mounts[i].mount_path) =>
                /\ last.deleg.fs = mounts[i].fs
                /\ forcedir(mounts[i].mount_path \o last.deleg.path) = LastDir
                /\ ~startswith(last.deleg.path, <<"/">>)
                /\ ~startswith(last.deleg.path, mounts[i].mount_path)

C4_ProxiedUseRelative ==
    (last.op \in ProxiedOps /\ last.deleg.fs \in Backends)
        => last.calls = <<Call(last.deleg.fs, last.op, last.deleg.path)>>

\* C5: after close() every proxied operation fails with FilesystemClosed and
\* calls no backend, and the closed flag never returns to false
C5_ClosedRejectsAll ==
    /\ [](closed /\ last.op \in ProxiedOps
            => last.err = "FilesystemClosed" /\ last.calls = <<>>)
    /\ [][closed => closed']_vars

\* C6: once close() has run with auto_close, the mount table is empty
C6_ClosedTableEmpty ==
    (closed /\ auto_close) => mounts = <<>>

\* C7 (as stated): mount fails with MountError whenever the normalized path
\* starts with the mount path of an existing entry, and the mount table and
\* the default filesystem are unchanged
C7_ConflictAlwaysMountError ==
    [][(MountStep /\ _path_of(last'.path) # IllegalBackReference
                  /\ \E i \in 1..Len(mounts) :
                         startswith(_path_of(last'.path), mounts[i].mount_path))
        => /\ last'.err = "MountError"
           /\ last'.calls = <<>>
           /\ UNCHANGED <<mounts, default_closed, root>>]_vars

\* C7 (amended): mount of a filesystem other than the MountFS itself fails
\* with MountError whenever the normalized path starts with the mount path
\* of an existing entry, and the mount table and the default filesystem are
\* unchanged
C7_ConflictMountError ==
    [][(MountStep /\ last'.fs # Self
                  /\ _path_of(last'.path) # IllegalBackReference
                  /\ \E i \in 1..Len(mounts) :
                         startswith(_path_of(last'.path), mounts[i].mount_path))
        => /\ last'.err = "MountError"
           /\ last'.calls = <<>>
           /\ UNCHANGED <<mounts, default_closed, root>>]_vars

\* a mount below an existing mount point was refused
C7_Witness ==
    /\ last.op = "mount"
    /\ last.fs \in Backends
    /\ last.err = "MountError"
    /\ \E i \in 1..Len(mounts) :
           /\ startswith(_path_of(last.path), mounts[i].mount_path)
           /\ _path_of(last.path) # mounts[i].mount_path

\* C8: mount of the MountFS itself fails with ValueError for every path and
\* every mount table, and changes neither the table nor the default filesystem
C8_SelfMountValueError ==
    [][(MountStep /\ last'.fs = Self)
        => /\ last'.err = "ValueError"
           /\ last'.calls = <<>>
           /\ UNCHANGED <<mounts, default_closed, root>>]_vars

\* the MountFS was mounted on itself at a path below an existing mount point
C8_Witness ==
    /\ last.op = "mount"
    /\ last.fs = Self
    /\ last.err = "ValueError"
    /\ \E i \in 1..Len(mounts) : startswith(_path_of(last.path), mounts[i].mount_path)

\* C9: on an open MountFS removedir("/") and removedir("") fail with
\* RemoveRootError and call no backend
C9_RemoveRoot ==
    (last.op = "removedir" /\ last.path \in {<<>>, <<"/">>} /\ ~closed)
        => /\ last.err = "RemoveRootError"
           /\ last.calls = <<>>

\* removedir("") was refused while a filesystem is mounted at "/"
C9_Witness ==
    /\ last.op = "removedir"
    /\ last.path = <<>>
    /\ last.err = "RemoveRootError"
    /\ ~closed
    /\ \E i \in 1..Len(mounts) : mounts[i].mount_path = <<"/">>

\* C10: close() calls close on the mounted filesystems in mount order if
\* auto_close (on none otherwise), then on the default filesystem, and never
\* in another order; when it returns, the table is empty if auto_close and
\* as before otherwise, and the MountFS is closed; the table is cleared
\* before the default filesystem is closed, and the MountFS is marked closed
\* only after
C10_CloseOrder ==
    [][CloseStep =>
        LET expected ==
                [i \in 1..(IF auto_close THEN Len(mounts) ELSE 0)
                    |-> Call(mounts[i].fs, "close", <<>>)]
                \o <<Call(Default, "close", <<>>)>>
            n == Len(last'.calls)
        IN  /\ n <= Len(expected)
            /\ last'.calls = SubSeq(expected, 1, n)
            /\ last'.err = "none" =>
                   /\ last'.calls = expected
                   /\ mounts' = IF auto_close THEN <<>> ELSE mounts
                   /\ closed'
                   /\ default_closed'
            /\ (last'.err # "none" /\ last'.calls = expected) =>
                   /\ mounts' = IF auto_close THEN <<>> ELSE mounts
                   /\ UNCHANGED <<closed, default_closed>>
            /\ (last'.err # "none" /\ last'.calls # expected) =>
                   UNCHANGED <<mounts, closed, default_closed>>]_vars

\* close() with auto_close has closed two different mounted filesystems and
\* then the default filesystem
C10_Witness ==
    /\ last.op = "close"
    /\ last.err = "none"
    /\ auto_close
    /\ closed
    /\ mounts = <<>>
    /\ Len(last.calls) = 3
    /\ last.calls[1].fs # last.calls[2].fs
    /\ last.calls[3].fs = Default

\* C11: when the close of a mounted filesystem raises during close() with
\* auto_close, close() still calls close on every mounted filesystem and on
\* the default filesystem, and the MountFS ends up closed
C11_CloseAttemptsAll ==
    [][(CloseStep /\ auto_close /\ last'.err # "none"
                  /\ last'.calls[Len(last'.calls)].fs \in Backends)
        => /\ last'.calls = [i \in 1..Len(mounts) |-> Call(mounts[i].fs, "close", <<>>)]
                            \o <<Call(Default, "close", <<>>)>>
           /\ closed']_vars

\* C12: a mount() call that raises leaves the mount table as it was
C12_FailedMountKeepsTable ==
    [][(MountStep /\ last'.err # "none") => mounts' = mounts]_vars

\* C15: close() on a closed MountFS calls close on no backend and changes
\* no state
C15_SecondCloseNoOp ==
    [][(closed /\ CloseStep)
        => /\ last'.calls = <<>>
           /\ UNCHANGED <<mounts, auto_close, closed, default_closed, root>>]_vars

\* C16: the mount table changes only by a successful mount() appending one
\* entry and by close() with auto_close clearing it, and no proxied operation
\* changes the mount table, auto_close or the closed flag
C16_TableChanges ==
    [][/\ mounts' # mounts =>
           \/ /\ MountStep
              /\ last'.err = "none"
              /\ Len(mounts') = Len(mounts) + 1
              /\ SubSeq(mounts', 1, Len(mounts)) = mounts
           \/ /\ CloseStep
              /\ auto_close
              /\ mounts' = <<>>
       /\ last'.op \in ProxiedOps => UNCHANGED <<mounts, auto_close, closed>>]_vars

\* the components of an absolute directory path: "/a/b/" has a and b
dir_components(p) == SelectSeq(split(p), LAMBDA c : c # <<>>)

\* cs is the beginning of ds, component by component
component_prefix(cs, ds) ==
    /\ Len(cs) <= Len(ds)
    /\ \A k \in 1..Len(cs) : cs[k] = ds[k]

C17_ArgumentsUnchanged ==
    (last.op \in ProxiedOps /\ last.calls # <<>>) => last.passed = last.args

\* C13: while the MountFS is open, the default filesystem has a directory
\* at the mount path of every entry of the mount table
C13_MountPointDirectory ==
    ~closed => \A i \in 1..Len(mounts) : is_dir(root, key(mounts[i].mount_path))

\* C14: desc raises ResourceNotFound and returns nothing when self.exists
\* reports that the path does not exist; when it reports that the path
\* exists, desc returns the description formatted from the filesystem and
\* the relative path _delegate returns for the path
C14_DescChecksExistence ==
    last.op = "desc" =>
        /\ last.exists = "no" => last.err = "ResourceNotFound" /\ last.ret = NoValue
        /\ last.exists = "yes" =>
               LET d == _delegate(mounts, last.path)
               IN  /\ last.err = "none"
                   /\ last.ret = d.path \o <<" on ">> \o <<d.fs>>

\* desc was refused for a path under a mount point that the mounted
\* filesystem does not have
C14_Witness ==
    /\ last.op = "desc"
    /\ last.exists = "no"
    /\ last.err = "ResourceNotFound"
    /\ last.calls # <<>>
    /\ last.calls[1].fs \in Backends
    /\ last.calls[1].path # <<>>

====
